---- MODULE Spec2Model ----
(***************************************************************************)
(* Model of src/src/components/ArtworksTable.tsx: a paginated artwork      *)
(* table whose row selection is kept across pages in selectedMap.          *)
(*                                                                         *)
(* Every React callback (event handler, effect, continuation of the async  *)
(* fetchPage after its awaits) runs to completion, so each is one action.  *)
(* fetchPage is a closure of the render that created it: the selectedMap   *)
(* it reads at line 64 is the one of the render in which the request was   *)
(* issued.  Maps are never updated in place (every updater copies), and of *)
(* the captured map line 64 reads only the keys of the requested page, so  *)
(* a pending request carries those keys with it.                           *)
(***************************************************************************)
EXTENDS Integers, FiniteSets, Sequences, Bags, TLC

\* ------------------------------------------------------------------ bounds
\* Records the remote catalog has.
Total == 3
\* Rows per page (the component asks for limit=pageSize; scaled down).
pageSize == 2
\* Fetches that may be pending at once.
MaxInFlight == 2

\* ------------------------------------------------------- the remote catalog
\* pagination.total_pages; the last page may be short
NumPages == (Total + pageSize - 1) \div pageSize
Ids == 1 .. Total
Pages == 1 .. NumPages

\* null of an optional field
Null == <<>>

PageIds(p) == { i \in Ids : (p - 1) * pageSize < i /\ i <= p * pageSize }

\* One element of json.data.  The API leaves optional fields out: records
\* with an even id carry no artist_display and no place_of_origin.
ApiRecord(i) ==
  IF i % 2 = 0
    THEN [id |-> i, title |-> <<"title", i>>]
    ELSE [id |-> i, title |-> <<"title", i>>,
          artist_display |-> <<"artist", i>>,
          place_of_origin |-> <<"origin", i>>]

ApiData(p) == { ApiRecord(i) : i \in PageIds(p) }

\* d.f ?? null
OrNull(d, f) == IF f \in DOMAIN d THEN d[f] ELSE Null

\* (json.data || []).map(d => ({...})) as Artwork[]
Normalize(d) ==
  [id |-> d.id,
   title |-> d.title,
   place_of_origin |-> OrNull(d, "place_of_origin"),
   artist_display |-> OrNull(d, "artist_display"),
   inscriptions |-> OrNull(d, "inscriptions"),
   date_start |-> OrNull(d, "date_start"),
   date_end |-> OrNull(d, "date_end")]

\* the normalized records of every page
Catalog == [p \in Pages |-> { Normalize(d) : d \in ApiData(p) }]

Artworks(p) == Catalog[p]

\* ------------------------------------------------------------------- state
VARIABLES
  mounted,        \* the mount effect has run
  rows,           \* visible records
  loading,        \* loading flag
  totalRecords,   \* total record count
  currentPage,    \* displayed page number
  selectedMap,    \* Selection Store: id -> entry
  pageSelection,  \* visible checked-subset handed to the DataTable
  inflight,       \* bag of pending fetchPage calls [page, has]
  last,           \* history: the callback that ran last
  intent,         \* history: ids whose latest user selection action was a select
  trip            \* history: progress of a page 1 -> 2 -> 1 round trip

cvars == <<mounted, rows, loading, totalRecords, currentPage, selectedMap,
           pageSelection, inflight>>
vars == <<mounted, rows, loading, totalRecords, currentPage, selectedMap,
          pageSelection, inflight, last, intent, trip>>

\* ----------------------------------------------------------------- helpers
IdsOf(rs) == { r.id : r \in rs }

EmptyMap == [i \in {} |-> i]

\* { id: row.id, title: row.title, artist_display: row.artist_display }
Entry(row) == [id |-> row.id, title |-> row.title, artist_display |-> row.artist_display]

RowOf(rs, i) == CHOOSE r \in rs : r.id = i

\* rs.forEach(r => copy.set(r.id, {...}))
SetAll(m, rs) ==
  [i \in (DOMAIN m) \cup IdsOf(rs) |->
     IF i \in IdsOf(rs) THEN Entry(RowOf(rs, i)) ELSE m[i]]

\* ks.forEach(k => copy.delete(k))
DeleteAll(m, ks) == [i \in (DOMAIN m) \ ks |-> m[i]]

\* the snapshot kept in `last` by the callbacks a two-step claim starts with
NoPre == [currentPage |-> 0, totalRecords |-> 0, rows |-> {},
          pageSelection |-> {}, selectedMap |-> EmptyMap]
Pre == [currentPage |-> currentPage, totalRecords |-> totalRecords, rows |-> rows,
        pageSelection |-> pageSelection, selectedMap |-> selectedMap]

Op(name, arg, pre) == [op |-> name, arg |-> arg, pre |-> pre]

\* Paginator: pages offered for totalRecords records
PageCount == (totalRecords + pageSize - 1) \div pageSize

\* -------------------------------------------------------------------- init
Init ==
  /\ mounted = FALSE
  /\ rows = {}
  /\ loading = FALSE
  /\ totalRecords = 0
  /\ currentPage = 1
  /\ selectedMap = EmptyMap
  /\ pageSelection = {}
  /\ inflight = EmptyBag
  /\ last = Op("init", 0, NoPre)
  /\ intent = {}
  /\ trip = [stage |-> 0, saved |-> {}]

\* ----------------------------------------------------------------- fetches
\* what line 64 will read of the selectedMap this render's fetchPage closes over
Captured(page) == (DOMAIN selectedMap) \cap PageIds(page)

\* a fetchPage that issues the request without setLoading(true)
FetchStartNoFlag(page) ==
  /\ loading' = loading
  /\ inflight' = inflight (+) SetToBag({[page |-> page, has |-> Captured(page)]})

\* fetchPage(page) up to its first await: setLoading(true), request issued.
FetchStart(page) ==
  /\ loading' = TRUE
  /\ inflight' = inflight (+) SetToBag({[page |-> page, has |-> Captured(page)]})

\* useEffect(() => { fetchPage(1) }, [])
Mount ==
  /\ ~mounted
  /\ mounted' = TRUE
  /\ FetchStart(1)
  /\ last' = Op("mount", 1, NoPre)
  /\ UNCHANGED <<rows, totalRecords, currentPage, selectedMap, pageSelection>>

\* onPageChange(e): newPage = e.page + 1
OnPageChange(newPage) ==
  /\ mounted
  /\ newPage \in 1 .. PageCount
  /\ BagCardinality(inflight) < MaxInFlight
  /\ currentPage' = newPage
  /\ FetchStart(newPage)
  /\ last' = Op("onPageChange", newPage, Pre)
  /\ UNCHANGED <<mounted, rows, totalRecords, selectedMap, pageSelection>>

\* artworks.filter(r => selectedMap.has(r.id)), selectedMap the closure's
Restored(artworks, has) == { r \in artworks : r.id \in has }

\* a response applied without the setPageSelection(restored) of line 65
FetchSuccessKeepsSelection(req) ==
  /\ BagIn(req, inflight)
  /\ inflight' = inflight (-) SetToBag({req})
  /\ rows' = Artworks(req.page)
  /\ totalRecords' = Total
  /\ loading' = FALSE
  /\ last' = Op("fetchSuccess", req.page, NoPre)
  /\ UNCHANGED <<mounted, currentPage, selectedMap, pageSelection>>

\* a response that also resets the Store
FetchSuccessResetsMap(req) ==
  /\ BagIn(req, inflight)
  /\ inflight' = inflight (-) SetToBag({req})
  /\ rows' = Artworks(req.page)
  /\ totalRecords' = Total
  /\ pageSelection' = Restored(Artworks(req.page), req.has)
  /\ selectedMap' = EmptyMap
  /\ loading' = FALSE
  /\ last' = Op("fetchSuccess", req.page, NoPre)
  /\ UNCHANGED <<mounted, currentPage>>

\* the try block ran through, then finally
FetchSuccess(req) ==
  /\ BagIn(req, inflight)
  /\ inflight' = inflight (-) SetToBag({req})
  /\ rows' = Artworks(req.page)
  /\ totalRecords' = Total
  /\ pageSelection' = Restored(Artworks(req.page), req.has)
  /\ loading' = FALSE
  /\ last' = Op("fetchSuccess", req.page, NoPre)
  /\ UNCHANGED <<mounted, currentPage, selectedMap>>

\* a failure handled like a response without data
FetchFailBlanks(req) ==
  /\ BagIn(req, inflight)
  /\ inflight' = inflight (-) SetToBag({req})
  /\ loading' = FALSE
  /\ rows' = {}
  /\ totalRecords' = 0
  /\ pageSelection' = {}
  /\ last' = Op("fetchFail", req.page, NoPre)
  /\ UNCHANGED <<mounted, currentPage, selectedMap>>

\* a failure handled without the finally block
FetchFailKeepsLoading(req) ==
  /\ BagIn(req, inflight)
  /\ inflight' = inflight (-) SetToBag({req})
  /\ last' = Op("fetchFail", req.page, NoPre)
  /\ UNCHANGED <<mounted, rows, loading, totalRecords, currentPage, selectedMap,
                 pageSelection>>

\* fetch or res.json() rejected: catch logs, then finally
FetchFail(req) ==
  /\ BagIn(req, inflight)
  /\ inflight' = inflight (-) SetToBag({req})
  /\ loading' = FALSE
  /\ last' = Op("fetchFail", req.page,
                IF last.op = "onPageChange" /\ last.arg = req.page
                   /\ req.has = Captured(req.page)
                  THEN last.pre ELSE NoPre)
  /\ UNCHANGED <<mounted, rows, totalRecords, currentPage, selectedMap, pageSelection>>

\* --------------------------------------------------------------- selection
\* an updater that forgets the rows.forEach pass
ToggleMapNoDelete(prev, selected, rws) == SetAll(prev, selected)

\* the updater passed to setSelectedMap in onSelectionChange
ToggleMap(prev, selected, rws) ==
  DeleteAll(SetAll(prev, selected),
            { r.id : r \in { x \in rws : ~ \E s \in selected : s.id = x.id } })

OnSelectionChange(selected) ==
  /\ pageSelection' = selected
  /\ selectedMap' = ToggleMap(selectedMap, selected, rows)
  /\ UNCHANGED <<mounted, rows, loading, totalRecords, currentPage, inflight>>

\* DataTable row checkbox (dataKey="id"): the selection prop with the row
\* added or removed
RowClick(r) ==
  /\ r \in rows
  /\ OnSelectionChange(IF r.id \in IdsOf(pageSelection)
                         THEN { s \in pageSelection : s.id # r.id }
                         ELSE pageSelection \cup {r})
  /\ last' = Op("rowClick", r.id, NoPre)

\* DataTable header checkbox: all rows, or none when all are checked
HeaderClick ==
  /\ rows # {}
  /\ OnSelectionChange(IF IdsOf(rows) \subseteq IdsOf(pageSelection) THEN {} ELSE rows)
  /\ last' = Op("headerClick", 0, NoPre)

\* an updater that returns prev instead of the copy
SelectAllMapKeep(prev, rws) == prev

\* the updater passed to setSelectedMap in selectAllOnPage
SelectAllMap(prev, rws) == SetAll(prev, rws)

SelectAllOnPage ==
  /\ mounted
  /\ selectedMap' = SelectAllMap(selectedMap, rows)
  /\ pageSelection' = rows
  /\ last' = Op("selectAllOnPage", 0, Pre)
  /\ UNCHANGED <<mounted, rows, loading, totalRecords, currentPage, inflight>>

\* an updater that starts from an empty map instead of a copy
ClearMapAll(prev, rws) == EmptyMap

\* an updater that returns prev instead of the copy
ClearMapKeep(prev, rws) == prev

\* an updater that walks the checked subset instead of rows
ClearMapChecked(prev, rws) == DeleteAll(prev, IdsOf(pageSelection))

\* the updater passed to setSelectedMap in clearSelectionOnPage
ClearMap(prev, rws) == DeleteAll(prev, IdsOf(rws))

ClearSelectionOnPage ==
  /\ mounted
  /\ selectedMap' = ClearMap(selectedMap, rows)
  /\ pageSelection' = {}
  /\ last' = Op("clearSelectionOnPage", 0,
                IF last.op = "selectAllOnPage" THEN last.pre ELSE NoPre)
  /\ UNCHANGED <<mounted, rows, loading, totalRecords, currentPage, inflight>>

\* a removal that leaves the DataTable's selection prop alone
RemoveFromSelectionMapOnly(id) ==
  /\ id \in DOMAIN selectedMap
  /\ selectedMap' = DeleteAll(selectedMap, {id})
  /\ last' = Op("removeFromSelection", id, NoPre)
  /\ UNCHANGED <<mounted, rows, loading, totalRecords, currentPage, inflight, pageSelection>>

\* the Deselect button of a summary-panel item
RemoveFromSelection(id) ==
  /\ id \in DOMAIN selectedMap
  /\ selectedMap' = DeleteAll(selectedMap, {id})
  /\ pageSelection' = { r \in pageSelection : r.id # id }
  /\ last' = Op("removeFromSelection", id, NoPre)
  /\ UNCHANGED <<mounted, rows, loading, totalRecords, currentPage, inflight>>

\* Array.from(selectedMap.values()) as rendered by selectionPanel
selectionPanel ==
  { [id |-> selectedMap[i].id,
     title |-> IF selectedMap[i].title = Null THEN "(no title)" ELSE selectedMap[i].title,
     meta |-> IF selectedMap[i].artist_display = Null
                THEN "Unknown artist" ELSE selectedMap[i].artist_display]
    : i \in DOMAIN selectedMap }

\* ---------------------------------------------------------- specifications
NoHistory == UNCHANGED <<intent, trip>>

Next ==
  \/ Mount /\ NoHistory
  \/ \E p \in Pages : OnPageChange(p) /\ NoHistory
  \/ \E req \in BagToSet(inflight) : FetchSuccess(req) /\ NoHistory
  \/ \E req \in BagToSet(inflight) : FetchFail(req) /\ NoHistory
  \/ \E r \in rows : RowClick(r) /\ NoHistory
  \/ HeaderClick /\ NoHistory
  \/ SelectAllOnPage /\ NoHistory
  \/ ClearSelectionOnPage /\ NoHistory
  \/ \E id \in Ids : RemoveFromSelection(id) /\ NoHistory

Spec == Init /\ [][Next]_vars

\* Every fetch succeeds.
NextAllSucceed ==
  \/ Mount /\ NoHistory
  \/ \E p \in Pages : OnPageChange(p) /\ NoHistory
  \/ \E req \in BagToSet(inflight) : FetchSuccess(req) /\ NoHistory
  \/ \E r \in rows : RowClick(r) /\ NoHistory
  \/ HeaderClick /\ NoHistory
  \/ SelectAllOnPage /\ NoHistory
  \/ ClearSelectionOnPage /\ NoHistory
  \/ \E id \in Ids : RemoveFromSelection(id) /\ NoHistory

SpecAllSucceed == Init /\ [][NextAllSucceed]_vars

\* intent follows the user's clicks: a click on a row's checkbox selects the
\* row when the box shows unchecked and deselects it when it shows checked.
NextIntent ==
  \/ Mount /\ NoHistory
  \/ \E p \in Pages : OnPageChange(p) /\ NoHistory
  \/ \E req \in BagToSet(inflight) : FetchSuccess(req) /\ NoHistory
  \/ \E req \in BagToSet(inflight) : FetchFail(req) /\ NoHistory
  \/ \E r \in rows :
       /\ RowClick(r)
       /\ intent' = IF r.id \in IdsOf(pageSelection)
                      THEN intent \ {r.id} ELSE intent \cup {r.id}
       /\ UNCHANGED trip
  \/ /\ HeaderClick
     /\ intent' = IF IdsOf(rows) \subseteq IdsOf(pageSelection)
                    THEN intent \ IdsOf(rows) ELSE intent \cup IdsOf(rows)
     /\ UNCHANGED trip
  \/ SelectAllOnPage /\ intent' = intent \cup IdsOf(rows) /\ UNCHANGED trip
  \/ ClearSelectionOnPage /\ intent' = intent \ IdsOf(rows) /\ UNCHANGED trip
  \/ \E id \in Ids : RemoveFromSelection(id) /\ intent' = intent \ {id} /\ UNCHANGED trip

SpecIntent == Init /\ [][NextIntent]_vars

\* trip follows one round trip: page 1 is shown and nothing is pending
\* (stage 0), page 2 is requested (1) and shown (2), page 1 is requested (3)
\* and shown again (4).  saved is the checked subset page 1 had on leaving.
\* Any other navigation, a failure, or a selection operation on page-1 ids
\* ends the trip.
NoTrip == [stage |-> 0, saved |-> {}]

TripOnPageChange(p) ==
  IF p = 2 /\ rows = Artworks(1) /\ inflight = EmptyBag
    THEN [stage |-> 1, saved |-> IdsOf(pageSelection)]
    ELSE IF p = 1 /\ trip.stage = 2
      THEN [stage |-> 3, saved |-> trip.saved]
      ELSE NoTrip

TripOnSuccess ==
  IF trip.stage \in {1, 3}
    THEN [stage |-> trip.stage + 1, saved |-> trip.saved]
    ELSE NoTrip

TripOnSelection(touched) ==
  IF trip.stage \in {1, 2, 3} /\ touched \cap PageIds(1) = {} THEN trip ELSE NoTrip

NextRoundTrip ==
  \/ Mount /\ NoHistory
  \/ \E p \in Pages : OnPageChange(p) /\ trip' = TripOnPageChange(p) /\ UNCHANGED intent
  \/ \E req \in BagToSet(inflight) :
       FetchSuccess(req) /\ trip' = TripOnSuccess /\ UNCHANGED intent
  \/ \E req \in BagToSet(inflight) : FetchFail(req) /\ trip' = NoTrip /\ UNCHANGED intent
  \/ \E r \in rows : RowClick(r) /\ trip' = TripOnSelection(IdsOf(rows)) /\ UNCHANGED intent
  \/ HeaderClick /\ trip' = TripOnSelection(IdsOf(rows)) /\ UNCHANGED intent
  \/ SelectAllOnPage /\ trip' = TripOnSelection(IdsOf(rows)) /\ UNCHANGED intent
  \/ ClearSelectionOnPage /\ trip' = TripOnSelection(IdsOf(rows)) /\ UNCHANGED intent
  \/ \E id \in Ids :
       RemoveFromSelection(id) /\ trip' = TripOnSelection({id}) /\ UNCHANGED intent

SpecRoundTrip == Init /\ [][NextRoundTrip]_vars

\* The mount effect runs, and every issued request settles: the promise
\* awaited in fetchPage resolves or rejects.
Settle ==
  \E req \in BagToSet(inflight) : (FetchSuccess(req) \/ FetchFail(req)) /\ NoHistory

SpecSettling ==
  Init /\ [][Next]_vars /\ WF_vars(Mount /\ NoHistory) /\ WF_vars(Settle)

\* ------------------------------------------------------------------ claims
ToggleOps == {"rowClick", "headerClick"}
PageOps == {"rowClick", "headerClick", "selectAllOnPage", "clearSelectionOnPage"}

\* the entry of id (presence and contents) is the same in maps m and n
SameEntry(m, n, id) ==
  /\ id \in DOMAIN m <=> id \in DOMAIN n
  /\ id \in DOMAIN m /\ id \in DOMAIN n => m[id] = n[id]

\* C1: when the DataTable reports the checked subset C of the visible rows R,
\* the Store's keys afterwards are (keys before minus ids(R)) union ids(C).
C1_ToggleKeySet ==
  [][last'.op \in ToggleOps =>
       /\ pageSelection' \subseteq rows
       /\ DOMAIN selectedMap' =
            ((DOMAIN selectedMap) \ IdsOf(rows)) \cup IdsOf(pageSelection')]_vars

\* a toggle left one visible id checked, one unchecked, with an id of another
\* page in the Store
C1_Witness ==
  /\ last.op = "rowClick"
  /\ \E r \in rows : r \in pageSelection /\ r.id \in DOMAIN selectedMap
  /\ \E r \in rows : r \notin pageSelection /\ r.id \notin DOMAIN selectedMap
  /\ \E id \in DOMAIN selectedMap : id \notin IdsOf(rows)

\* C2: toggle, select all and clear leave the entry of every id that is not
\* visible as it was.
C2_OffPageUntouched ==
  [][last'.op \in PageOps =>
       \A id \in Ids \ IdsOf(rows) : SameEntry(selectedMap, selectedMap', id)]_vars

\* page 2 is visible, a toggle left nothing checked there, and all of page 1
\* is still selected
C2_Witness ==
  /\ last.op \in ToggleOps
  /\ rows = Artworks(2)
  /\ pageSelection = {}
  /\ PageIds(1) \subseteq DOMAIN selectedMap

\* C4: the checked subset shown is the Store restricted to the visible rows.
C4_PageSelectionIsStoreOnPage ==
  IdsOf(pageSelection) = (DOMAIN selectedMap) \cap IdsOf(rows)

\* C3: an id is in the Store exactly if the user's latest selection action
\* on it was a select.
C3_StoreIsLastIntent == DOMAIN selectedMap = intent

\* C5: back on page 1 after page 1 -> page 2 -> page 1, every fetch
\* succeeding and no selection operation on page-1 ids in between, the
\* checked subset is the one page 1 had on leaving.
C5_RoundTripRestores ==
  trip.stage = 4 => rows = Artworks(1) /\ IdsOf(pageSelection) = trip.saved

\* C6 as stated: after select all immediately followed by clear, each visible
\* id is in the Store exactly if it was there before the select all.
C6_ClearUndoesSelectAll ==
  (last.op = "clearSelectionOnPage" /\ last.pre # NoPre) =>
    \A id \in IdsOf(rows) :
      id \in DOMAIN selectedMap <=> id \in DOMAIN last.pre.selectedMap

\* C6 amended: after select all immediately followed by clear, no visible id
\* is in the Store and every other id's entry is as before the select all.
C6_ClearAfterSelectAll ==
  (last.op = "clearSelectionOnPage" /\ last.pre # NoPre) =>
    /\ rows = last.pre.rows
    /\ IdsOf(rows) \cap DOMAIN selectedMap = {}
    /\ \A id \in Ids \ IdsOf(rows) : SameEntry(last.pre.selectedMap, selectedMap, id)

\* select all then clear ran on a page that had a selected row before, while
\* another page's id stays selected
C6_Witness ==
  /\ last.op = "clearSelectionOnPage"
  /\ last.pre # NoPre
  /\ IdsOf(rows) \cap DOMAIN last.pre.selectedMap # {}
  /\ \E id \in DOMAIN selectedMap : id \notin IdsOf(rows)

\* C7: removeFromSelection(id) takes id out of the Store, of the checked
\* subset and of the summary panel, and leaves every other entry alone.
C7_RemoveOne ==
  [][last'.op = "removeFromSelection" =>
       /\ last'.arg \notin DOMAIN selectedMap'
       /\ last'.arg \notin IdsOf(pageSelection')
       /\ \A o \in Ids \ {last'.arg} : SameEntry(selectedMap, selectedMap', o)
       /\ Cardinality(DOMAIN selectedMap') = Cardinality(DOMAIN selectedMap) - 1
       /\ { p.id : p \in selectionPanel' } = DOMAIN selectedMap'
       /\ last'.arg \notin { p.id : p \in selectionPanel' }]_vars

\* an id of a page that is not visible was removed, others stay selected
C7_Witness ==
  /\ last.op = "removeFromSelection"
  /\ rows # {}
  /\ last.arg \notin IdsOf(rows)
  /\ pageSelection # {}
  /\ selectionPanel # {}

\* C8: handling a failed fetch changes nothing but the loading flag, which it
\* clears.
C8_FailureKeepsPage ==
  [][last'.op = "fetchFail" =>
       /\ rows' = rows
       /\ totalRecords' = totalRecords
       /\ pageSelection' = pageSelection
       /\ selectedMap' = selectedMap
       /\ loading' = FALSE]_vars

\* a fetch failed while a page with checked rows was shown
C8_Witness ==
  /\ last.op = "fetchFail"
  /\ rows # {}
  /\ pageSelection # {}
  /\ selectedMap # EmptyMap
  /\ ~loading

\* C9: after a navigation whose fetch fails, page number, total, rows and
\* checked subset are those from before the navigation.
C9_FailedNavigationKeepsPageState ==
  (last.op = "fetchFail" /\ last.pre # NoPre) =>
    /\ currentPage = last.pre.currentPage
    /\ totalRecords = last.pre.totalRecords
    /\ rows = last.pre.rows
    /\ pageSelection = last.pre.pageSelection

\* C10: with every fetch succeeding, once nothing is in flight the visible
\* rows are those of the displayed page number.
C10_LatestNavigationShown ==
  (mounted /\ inflight = EmptyBag) => rows = Artworks(currentPage)

\* C11: after select all, every visible record has a Store entry with its id,
\* title and creator text, and the checked subset is the whole visible list.
C11_SelectAllCoversPage ==
  last.op = "selectAllOnPage" =>
    /\ pageSelection = rows
    /\ \A r \in rows :
         /\ r.id \in DOMAIN selectedMap
         /\ selectedMap[r.id].id = r.id
         /\ selectedMap[r.id].title = r.title
         /\ selectedMap[r.id].artist_display = r.artist_display

\* select all ran on a page with a record that has no creator text, while an
\* id of another page is selected
C11_Witness ==
  /\ last.op = "selectAllOnPage"
  /\ \E r \in rows : r.artist_display = Null
  /\ \E r \in rows : r.artist_display # Null
  /\ \E id \in DOMAIN selectedMap : id \notin IdsOf(rows)

\* C12: after clear, no visible id is in the Store and nothing is checked.
C12_ClearEmptiesPage ==
  last.op = "clearSelectionOnPage" =>
    /\ IdsOf(rows) \cap DOMAIN selectedMap = {}
    /\ pageSelection = {}

\* clear ran on a page with rows, not right after a select all, while an id
\* of another page stays selected
C12_Witness ==
  /\ last.op = "clearSelectionOnPage"
  /\ last.pre = NoPre
  /\ rows # {}
  /\ \E id \in DOMAIN selectedMap : id \notin IdsOf(rows)

\* C17: every checked record is one of the visible rows.
C17_CheckedAreVisible == pageSelection \subseteq rows

\* a response replaced the rows of a page that had selected rows, and rows of
\* the new page are checked
C17_Witness ==
  /\ last.op = "fetchSuccess"
  /\ pageSelection # {}
  /\ \E id \in DOMAIN selectedMap : id \notin IdsOf(rows)

\* C13: the Store is empty at mount, and starting a fetch, applying a response
\* and handling a failure leave it as it is.
FetchOps == {"mount", "onPageChange", "fetchSuccess", "fetchFail"}

C13_FetchesKeepStore ==
  /\ selectedMap = EmptyMap
  /\ [][(~mounted' => selectedMap' = EmptyMap)
        /\ (last'.op \in FetchOps => selectedMap' = selectedMap)]_vars

\* a response replaced the rows while ids of the page shown before are in the
\* Store
C13_Witness ==
  /\ last.op = "fetchSuccess"
  /\ selectedMap # EmptyMap
  /\ (DOMAIN selectedMap) \cap IdsOf(rows) = {}

\* C14: starting a fetch sets the loading flag and every settle clears it;
\* when every request settles and the navigations come to an end, the
\* component ends up, for good, with nothing in flight and the flag cleared.
StartOps == {"mount", "onPageChange"}
SettleOps == {"fetchSuccess", "fetchFail"}
Idle == inflight = EmptyBag /\ ~loading

C14_LoadingFollowsFetches ==
  /\ [][(last'.op \in StartOps => loading')
        /\ (last'.op \in SettleOps => ~loading')]_vars
  /\ (<>[][last'.op # "onPageChange"]_vars) => <>[]Idle

\* two overlapping fetches have both settled, the last one by a failure
C14_Witness ==
  /\ last.op = "fetchFail"
  /\ currentPage # 1
  /\ rows = Artworks(1)
  /\ Idle

\* C15 as stated: the loading flag is set whenever a fetch is in flight.
C15_LoadingWhilePending == inflight # EmptyBag => loading

\* C15 amended: the loading flag is set whenever a fetch is in flight and no
\* fetch has settled since the latest fetch start: a state with a pending
\* fetch and a cleared flag is entered only by a settle and is kept only by
\* steps that start no fetch.
C15_LoadingUntilFirstSettle ==
  [][(inflight' # EmptyBag /\ ~loading') =>
       \/ last'.op \in SettleOps
       \/ inflight # EmptyBag /\ ~loading /\ last'.op \notin StartOps]_vars

\* of two overlapping fetches one has settled and cleared the flag, the other
\* is still pending
C15_Witness ==
  /\ last.op \in SettleOps
  /\ inflight # EmptyBag
  /\ ~loading

\* C16: a click on one row's checkbox changes the Store membership of that
\* row's id only.
C16_RowClickTouchesOneId ==
  [][last'.op = "rowClick" =>
       \A id \in Ids \ {last'.arg} :
         id \in DOMAIN selectedMap' <=> id \in DOMAIN selectedMap]_vars

====
